---- MODULE Spec2Model ----
(***************************************************************************)
(* Lotame Panorama Id submodule (modules/lotamePanoramaIdSystem.js).        *)
(*                                                                         *)
(* Conventions of the model                                                *)
(*  - Time (Date.now(), timestamp(), expiry_ts) is counted in ticks of     *)
(*    half a second, so that 1000 ms = TicksPerSecond ticks; the clock     *)
(*    does not move inside one handler.                                    *)
(*  - A JavaScript string is a sequence of one-character strings           *)
(*    ("abc" is <<"a","b","c">>); null and undefined are the two           *)
(*    sequences below, which no string equals.  Storage keys and the       *)
(*    configured clientId are TLA+ strings; an absent clientId is "".      *)
(*  - A JavaScript number is an integer; NaN and the undefined number      *)
(*    (an absent expiry_ts) are the two negative sentinels below.          *)
(***************************************************************************)
EXTENDS Integers, Sequences, FiniteSets, TLC

\* ------------------------------------------------------------ bounds
MaxTime == 2
MaxExpiry == 3
MaxCalls == 2
MaxRequests == 2
CacheMaxTime == 5
MaxSaves == 2

\* --------------------------------------------------------- constants
TicksPerSecond == 2
DAYS_TO_CACHE == 7
MISSING_CORE_CONSENT == 111
NINE_MONTHS_MS == 23328000 * TicksPerSecond
DAY_MS == 60 * 60 * 24 * TicksPerSecond

KEY_ID == "panoramaId"
KEY_EXPIRY == KEY_ID \o "_expiry"
KEY_PROFILE == "_cc_id"

\* ------------------------------------------------- JavaScript values
null == <<"null">>
undefined == <<"undefined">>
NaN == -1
NoNumber == -2
\* the two booleans, which no string equals either
true == <<"true">>
false == <<"false">>
isBoolean(v) == v = true \/ v = false

ClientIds == {"7"}
NoClientId == ""
CoreIds == {<<"a", "b", "c">>}
ProfileIds == {<<"p", "1">>}

isStr(v) == v # null /\ v # undefined
isEmpty(v) == v = null \/ v = undefined \/ v = <<>>
Truthy(v) == ~isEmpty(v)
TruthyNum(n) == n # NoNumber /\ n # NaN /\ n # 0

Digits == <<"0", "1", "2", "3", "4", "5", "6", "7", "8", "9">>
IsDigit(c) == \E d \in 1..10 : Digits[d] = c
DigitVal(c) == (CHOOSE d \in 1..10 : Digits[d] = c) - 1

\* String(n) for a non-negative integer
RECURSIVE ToStr(_)
ToStr(n) ==
  IF n < 10 THEN <<Digits[n + 1]>>
  ELSE Append(ToStr(n \div 10), Digits[(n % 10) + 1])

RECURSIVE ParseDigits(_, _, _)
ParseDigits(s, i, acc) ==
  IF i > Len(s) \/ ~IsDigit(s[i]) THEN acc
  ELSE ParseDigits(s, i + 1, acc * 10 + DigitVal(s[i]))

\* parseInt(s, 10) of a string: its leading digits, NaN when there are none
parseInt(s) ==
  IF s = <<>> \/ ~IsDigit(s[1]) THEN NaN ELSE ParseDigits(s, 1, 0)

\* a > b on numbers; any comparison with NaN is false
Gt(a, b) == a # NaN /\ b # NaN /\ a > b
Lt(a, b) == Gt(b, a)

\* ---------------------------------------------------------- storage
ClientKey(clientId) == KEY_EXPIRY \o "_" \o clientId
ExpKey(key) == key \o "_exp"
\* the first-party consent cookies getConsentParameters falls back to
ConsentKeys == {"us_privacy", "eupubconsent-v2", "euconsent-v2"}
Keys ==
  {KEY_ID, KEY_EXPIRY, KEY_PROFILE} \cup {ClientKey(c) : c \in ClientIds}
    \cup ConsentKeys
LsKeys == Keys \cup {ExpKey(k) : k \in Keys}

NoCookie == [v |-> null, exp |-> 0]
EmptyStorage == [cookie |-> [k \in Keys |-> NoCookie], ls |-> [k \in LsKeys |-> null]]

VARIABLES
  now,        \* Date.now()
  cookiesOn,  \* storage.cookiesAreEnabled()
  lsOn,       \* storage.hasLocalStorage()
  store,      \* [cookie, ls]: the two storage backends
  deferred,   \* the resolveIdFunction closures getId has returned
  inflight,   \* the ajax requests awaiting their response
  ret,        \* what the last handler returned or delivered
  calls,      \* number of getId calls so far
  issued      \* number of ajax requests issued so far

vars == <<now, cookiesOn, lsOn, store, deferred, inflight, ret, calls, issued>>

\* new Date(ts).toUTCString(): a cookie's expires attribute has whole seconds
toUTCString(ts) == (ts \div TicksPerSecond) * TicksPerSecond

\* storage.setCookie: a cookie whose expiry is not in the future is dropped
setCookie(st, key, value, expires) ==
  [st EXCEPT !.cookie[key] =
     IF expires <= now THEN NoCookie ELSE [v |-> value, exp |-> expires]]

\* storage.getCookie: null when there is no live cookie of that name
getCookie(st, key) ==
  IF now < st.cookie[key].exp THEN st.cookie[key].v ELSE null

setDataInLocalStorage(st, key, value) == [st EXCEPT !.ls[key] = value]
getDataFromLocalStorage(st, key) == st.ls[key]
removeDataFromLocalStorage(st, key) == [st EXCEPT !.ls[key] = null]

\* local storage used only as a fallback for the cookie
setProfileId_LocalStorageFallback(st, profileId) ==
  IF cookiesOn
  THEN setCookie(st, KEY_PROFILE, profileId, toUTCString(now + NINE_MONTHS_MS))
  ELSE IF lsOn THEN setDataInLocalStorage(st, KEY_PROFILE, profileId) ELSE st

setProfileId(st, profileId) ==
  LET s1 == IF cookiesOn
            THEN setCookie(st, KEY_PROFILE, profileId, toUTCString(now + NINE_MONTHS_MS))
            ELSE st
  IN IF lsOn THEN setDataInLocalStorage(s1, KEY_PROFILE, profileId) ELSE s1

getProfileId(st) ==
  LET c == IF cookiesOn THEN getCookie(st, KEY_PROFILE) ELSE undefined
  IN IF ~Truthy(c) /\ lsOn THEN getDataFromLocalStorage(st, KEY_PROFILE) ELSE c

\* the companion record only has to be a number
LsUnexpired_AnyNumber(storedValueExp) ==
  parseInt(storedValueExp) # NaN

LsUnexpired(storedValueExp) ==
  LET t == parseInt(storedValueExp) IN t # NaN /\ t - now > 0

getFromStorage(st, key) ==
  LET value == IF cookiesOn THEN getCookie(st, key) ELSE null
      storedValueExp == getDataFromLocalStorage(st, ExpKey(key))
  IN IF lsOn /\ value = null
     THEN IF storedValueExp = <<>> \/ storedValueExp = null
          THEN getDataFromLocalStorage(st, key)
          ELSE IF LsUnexpired(storedValueExp)
               THEN getDataFromLocalStorage(st, key)
               ELSE value
     ELSE value

\* the default of saveLotameCache's expirationTimestamp parameter
DefaultExpiration(expirationTimestamp) ==
  IF expirationTimestamp = NoNumber THEN now + DAYS_TO_CACHE * DAY_MS
  ELSE expirationTimestamp

\* local storage written only when the cookie backend is unavailable
saveLotameCache_EitherBackend(st, key, value, expirationTimestamp) ==
  LET ts == DefaultExpiration(expirationTimestamp)
  IN IF ~Truthy(value) THEN st
     ELSE IF cookiesOn THEN setCookie(st, key, value, toUTCString(ts))
     ELSE IF lsOn
          THEN setDataInLocalStorage(
                 setDataInLocalStorage(st, ExpKey(key), ToStr(ts)), key, value)
          ELSE st

\* an entry whose recorded expiry is later than the new one is kept
saveLotameCache_KeepsLater(st, key, value, expirationTimestamp) ==
  LET ts == DefaultExpiration(expirationTimestamp)
      s1 == IF cookiesOn THEN setCookie(st, key, value, toUTCString(ts)) ELSE st
      s2 == IF lsOn
            THEN setDataInLocalStorage(
                   setDataInLocalStorage(s1, ExpKey(key), ToStr(ts)), key, value)
            ELSE s1
  IN IF Truthy(value) /\ ~Gt(parseInt(st.ls[ExpKey(key)]), ts) THEN s2 ELSE st

\* saveLotameCache(key, value, expirationTimestamp) with a string value
saveLotameCache(st, key, value, expirationTimestamp) ==
  LET ts == DefaultExpiration(expirationTimestamp)
      s1 == IF cookiesOn THEN setCookie(st, key, value, toUTCString(ts)) ELSE st
      s2 == IF lsOn
            THEN setDataInLocalStorage(
                   setDataInLocalStorage(s1, ExpKey(key), ToStr(ts)), key, value)
            ELSE s1
  IN IF Truthy(value) THEN s2 ELSE st

\* the expiry argument left out: the entry would get the default lifetime
saveExpiry_DefaultLifetime(st, key, expiry) ==
  IF TruthyNum(expiry) THEN saveLotameCache(st, key, ToStr(expiry), NoNumber) ELSE st

\* saveLotameCache(key, expiry, expiry): the value is the number expiry_ts,
\* which both backends store as String(expiry)
saveExpiry(st, key, expiry) ==
  IF TruthyNum(expiry) THEN saveLotameCache(st, key, ToStr(expiry), expiry) ELSE st

\* the local-storage entry left in place
clearLotameCache_CookieOnly(st, key) ==
  IF cookiesOn THEN setCookie(st, key, <<>>, toUTCString(0)) ELSE st

clearLotameCache(st, key) ==
  LET s1 == IF cookiesOn THEN setCookie(st, key, <<>>, toUTCString(0)) ELSE st
  IN IF lsOn THEN removeDataFromLocalStorage(s1, key) ELSE s1

getLotameLocalCache(st, clientId) ==
  LET rawClientExpiry == IF clientId # NoClientId
                         THEN getFromStorage(st, ClientKey(clientId)) ELSE null
      rawExpiry == getFromStorage(st, KEY_EXPIRY)
  IN [data |-> getFromStorage(st, KEY_ID),
      expiryTimestampMs |-> IF isStr(rawExpiry) THEN parseInt(rawExpiry) ELSE 0,
      clientExpiryTimestampMs |->
        IF isStr(rawClientExpiry) THEN parseInt(rawClientExpiry) ELSE 0]

\* the consentData argument of getId: absent, or an object whose gdprApplies
\* and consentString may each be missing
NoConsentData == [present |-> FALSE, gdprApplies |-> undefined, consentString |-> undefined]
ConsentString == <<"C", "S">>
ConsentDatas ==
  {NoConsentData} \cup
  [present : {TRUE}, gdprApplies : {true, false, undefined},
   consentString : {undefined, <<>>, ConsentString}]
\* what uspDataHandler.getConsentData() may return
UsPrivacy == <<"1", "Y", "N", "N">>
UspValues == {undefined, <<>>, UsPrivacy}

\* getConsentParameters(consentData): a parameter that is not set is undefined
getConsentParameters(st, consentData, usp) ==
  LET usPrivacy0 == IF usp # undefined /\ ~isEmpty(usp) THEN usp ELSE undefined
      usPrivacy == IF ~Truthy(usPrivacy0) THEN getFromStorage(st, "us_privacy")
                   ELSE usPrivacy0
      consentString0 == IF consentData.present THEN consentData.consentString
                        ELSE undefined
      consentString1 == IF ~Truthy(consentString0)
                        THEN getFromStorage(st, "eupubconsent-v2") ELSE consentString0
      consentString == IF ~Truthy(consentString1)
                       THEN getFromStorage(st, "euconsent-v2") ELSE consentString1
  IN [us_privacy |-> IF Truthy(usPrivacy) THEN usPrivacy ELSE undefined,
      gdpr_applies |-> IF consentData.present /\ isBoolean(consentData.gdprApplies)
                       THEN consentData.gdprApplies ELSE undefined,
      gdpr_consent |-> IF Truthy(consentString) THEN consentString ELSE undefined]

getCurrentPanoId(localCache) ==
  LET hasExpiredPanoId == Gt(now, localCache.expiryTimestampMs)
  IN IF ~hasExpiredPanoId /\ ~isEmpty(localCache.data)
     THEN localCache.data ELSE undefined

\* ------------------------------------------------------- responses
CLIENT == <<"C", "L", "I", "E", "N", "T">>

\* the JSON bodies the /id and linkage-data endpoints may answer with
JsonResponses ==
  [kind : {"json"},
   profile_id : {undefined} \cup ProfileIds,
   core_id : {undefined, <<>>} \cup CoreIds,
   no_consent : {undefined, CLIENT},
   expiry_ts : {NoNumber} \cup (1..MaxExpiry),
   errors : {<<>>, <<MISSING_CORE_CONSENT>>}]

Blank(kind) ==
  [kind |-> kind, profile_id |-> undefined, core_id |-> undefined,
   no_consent |-> undefined, expiry_ts |-> NoNumber, errors |-> <<>>]

\* "empty": no body; "invalid": a body JSON.parse throws on
Responses == JsonResponses \cup {Blank("empty"), Blank("invalid")}
NoResponse == Blank("none")

consentIsErrorFree(responseObj) ==
  ~(\E i \in 1..Len(responseObj.errors) : responseObj.errors[i] = MISSING_CORE_CONSENT)

\* the branch taken on any consent error, whatever no_consent says
EndsProcessing_AnyNoConsent(o) ==
  /\ o.clientId # NoClientId
  /\ ~o.consentIsErrorFree

\* the client-scoped no-consent branch, which ends the processing
EndsProcessing(o) ==
  /\ o.clientId # NoClientId
  /\ ~o.consentIsErrorFree
  /\ isStr(o.noConsent) /\ o.noConsent = CLIENT

\* the global expiry record persisted only when consent is error free
processResponseIDs_ExpiryNeedsConsent(st, o) ==
  LET hasCustomClientId == o.clientId # NoClientId
      s0 == IF hasCustomClientId /\ o.consentIsErrorFree
            THEN clearLotameCache(st, ClientKey(o.clientId)) ELSE st
      s1 == IF o.consentIsErrorFree THEN saveExpiry(s0, KEY_EXPIRY, o.expiry) ELSE s0
      s2 == IF o.consentIsErrorFree THEN setProfileId(s1, o.profileId) ELSE s1
      s3 == IF o.consentIsErrorFree THEN clearLotameCache(s1, KEY_PROFILE) ELSE s1
  IN IF EndsProcessing(o)
     THEN [st |-> saveExpiry(st, ClientKey(o.clientId), o.expiry), coreId |-> undefined]
     ELSE IF isStr(o.profileId)
          THEN IF isStr(o.coreId)
               THEN [st |-> saveLotameCache(s2, KEY_ID, o.coreId, o.expiry),
                     coreId |-> o.coreId]
               ELSE [st |-> clearLotameCache(s2, KEY_ID), coreId |-> undefined]
          ELSE [st |-> clearLotameCache(s3, KEY_ID), coreId |-> undefined]

\* processResponseIDs: [st |-> the storage afterwards, coreId |-> its result]
processResponseIDs(st, o) ==
  LET hasCustomClientId == o.clientId # NoClientId
      s0 == IF hasCustomClientId /\ o.consentIsErrorFree
            THEN clearLotameCache(st, ClientKey(o.clientId)) ELSE st
      s1 == saveExpiry(s0, KEY_EXPIRY, o.expiry)
      s2 == IF o.consentIsErrorFree THEN setProfileId(s1, o.profileId) ELSE s1
      s3 == IF o.consentIsErrorFree THEN clearLotameCache(s1, KEY_PROFILE) ELSE s1
  IN IF EndsProcessing(o)
     THEN [st |-> saveExpiry(st, ClientKey(o.clientId), o.expiry), coreId |-> undefined]
     ELSE IF isStr(o.profileId)
          THEN IF isStr(o.coreId)
               THEN [st |-> saveLotameCache(s2, KEY_ID, o.coreId, o.expiry),
                     coreId |-> o.coreId]
               ELSE [st |-> clearLotameCache(s2, KEY_ID), coreId |-> undefined]
          ELSE [st |-> clearLotameCache(s3, KEY_ID), coreId |-> undefined]

\* a body that does not parse handled as a response without fields
handleResponse_ParseFailureClears(st, clientId, response) ==
  processResponseIDs(st,
    [profileId |-> response.profile_id,
     coreId |-> response.core_id,
     clientId |-> clientId,
     noConsent |-> response.no_consent,
     expiry |-> response.expiry_ts,
     consentIsErrorFree |-> consentIsErrorFree(response)])

\* the body of both ajax success handlers up to the callback
handleResponse(st, clientId, response) ==
  IF response.kind = "json"
  THEN processResponseIDs(st,
         [profileId |-> response.profile_id,
          coreId |-> response.core_id,
          clientId |-> clientId,
          noConsent |-> response.no_consent,
          expiry |-> response.expiry_ts,
          consentIsErrorFree |-> consentIsErrorFree(response)])
  ELSE [st |-> st, coreId |-> undefined]

\* ------------------------------------------------------------ state
Ret(op, clientId, kind, value, sent, resp) ==
  [op |-> op, clientId |-> clientId, kind |-> kind, value |-> value,
   sent |-> sent, resp |-> resp]

\* Which backends are available is the environment's; it is fixed for a run
\* of the page (Spec) and may be withdrawn at any time in CacheSpec.  In Spec
\* the page has no consent context (no consentData, no usp string, no consent
\* cookies); QuerySpec is about the requests built with one.
Init ==
  /\ now = 0
  /\ cookiesOn \in BOOLEAN
  /\ lsOn \in BOOLEAN
  /\ store = EmptyStorage
  /\ deferred = <<>>
  /\ inflight = <<>>
  /\ ret = Ret("init", NoClientId, "none", undefined, FALSE, NoResponse)
  /\ calls = 0
  /\ issued = 0

Remove(s, i) == SubSeq(s, 1, i - 1) \o SubSeq(s, i + 1, Len(s))

\* the parameters of a request: an absent one is undefined, an absent c is ""
NoQuery ==
  [fp |-> undefined, c |-> NoClientId, us_privacy |-> undefined,
   gdpr_applies |-> undefined, gdpr_consent |-> undefined]

\* the POST issued for a hem even when no clientId is configured
sendUserData_WithoutClient(clientId, hasHem) ==
  IF hasHem
  THEN <<[flow |-> "data", clientId |-> clientId,
          query |-> [NoQuery EXCEPT !.c = clientId]]>>
  ELSE <<>>

\* sendUserData: the linkage-data POST, issued for a clientId with a hem
sendUserData(clientId, hasHem) ==
  IF clientId # NoClientId /\ hasHem
  THEN <<[flow |-> "data", clientId |-> clientId,
          query |-> [NoQuery EXCEPT !.c = clientId]]>>
  ELSE <<>>

hasFreshClientNoConsent_OffByOne(localCache) ==
  Lt(now + 1, localCache.clientExpiryTimestampMs)

hasFreshClientNoConsent(localCache) ==
  Lt(now, localCache.clientExpiryTimestampMs)

\* lotamePanoramaIdSubmodule.getId(config, consentData, cacheIdObj)
getId(clientId, hasHem, consentData) ==
  LET localCache == getLotameLocalCache(store, clientId)
      hasCustomClientId == clientId # NoClientId
      currentPanoId == getCurrentPanoId(localCache)
      storedUserId == getProfileId(store)
      posts == sendUserData(clientId, hasHem)
  IN /\ calls < MaxCalls
     /\ issued + Len(posts) <= MaxRequests
     /\ calls' = calls + 1
     /\ IF hasCustomClientId /\ hasFreshClientNoConsent(localCache)
        THEN /\ ret' = Ret("getId", clientId, "suppressed", undefined, FALSE, NoResponse)
             /\ UNCHANGED <<deferred, inflight, issued>>
        ELSE /\ inflight' = inflight \o posts
             /\ issued' = issued + Len(posts)
             /\ IF ~isEmpty(currentPanoId)
                THEN /\ ret' = Ret("getId", clientId, "id", currentPanoId, FALSE, NoResponse)
                     /\ UNCHANGED deferred
                ELSE /\ ret' = Ret("getId", clientId, "callback", undefined, FALSE, NoResponse)
                     /\ deferred' = Append(deferred,
                          [clientId |-> clientId, localCache |-> localCache,
                           storedUserId |-> storedUserId,
                           consentData |-> consentData])
     /\ UNCHANGED <<now, cookiesOn, lsOn, store>>

\* the cache resolveIdFunction re-checks: the localCache its closure captured
closureCache(self) == self.localCache

\* every parameter sent, an unset one as the empty string
queryParams_EmptyStrings(self, st, usp) ==
  LET consent == getConsentParameters(st, self.consentData, usp)
      OrEmpty(v) == IF v = undefined THEN <<>> ELSE v
  IN [fp |-> OrEmpty(self.storedUserId),
      c |-> self.clientId,
      us_privacy |-> OrEmpty(consent.us_privacy),
      gdpr_applies |-> OrEmpty(consent.gdpr_applies),
      gdpr_consent |-> OrEmpty(consent.gdpr_consent)]

\* the queryParams object resolveIdFunction builds for GET /id
queryParams(self, st, usp) ==
  LET consent == getConsentParameters(st, self.consentData, usp)
  IN [fp |-> IF Truthy(self.storedUserId) THEN self.storedUserId ELSE undefined,
      c |-> self.clientId,
      us_privacy |-> consent.us_privacy,
      gdpr_applies |-> consent.gdpr_applies,
      gdpr_consent |-> consent.gdpr_consent]

\* the host invokes resolveIdFunction(callback) of the d-th deferred result;
\* usp is what uspDataHandler.getConsentData() returns at that time
resolveIdFunction(d, usp) ==
  LET self == deferred[d]
      currentPanoId == getCurrentPanoId(closureCache(self))
  IN /\ issued < MaxRequests
     /\ IF ~isEmpty(currentPanoId)
        THEN /\ ret' = Ret("resolve", self.clientId, "delivered", currentPanoId, FALSE, NoResponse)
             /\ UNCHANGED <<inflight, issued>>
        ELSE /\ ret' = Ret("resolve", self.clientId, "none", undefined, TRUE, NoResponse)
             /\ issued' = issued + 1
             /\ inflight' = Append(inflight,
                  [flow |-> "id", clientId |-> self.clientId,
                   query |-> queryParams(self, store, usp)])
     /\ UNCHANGED <<now, cookiesOn, lsOn, store, deferred, calls>>

\* the success handler of the GET /id request: process, then callback(coreId)
idResponse(i, response) ==
  LET r == handleResponse(store, inflight[i].clientId, response)
  IN /\ inflight[i].flow = "id"
     /\ store' = r.st
     /\ inflight' = Remove(inflight, i)
     /\ ret' = Ret("idResponse", inflight[i].clientId, "delivered", r.coreId, FALSE, response)
     /\ UNCHANGED <<now, cookiesOn, lsOn, deferred, calls, issued>>

\* the success handler of the linkage-data POST: process, no callback
dataResponse(i, response) ==
  LET r == handleResponse(store, inflight[i].clientId, response)
  IN /\ inflight[i].flow = "data"
     /\ store' = r.st
     /\ inflight' = Remove(inflight, i)
     /\ ret' = Ret("dataResponse", inflight[i].clientId, "none", undefined, FALSE, response)
     /\ UNCHANGED <<now, cookiesOn, lsOn, deferred, calls, issued>>

\* ajax reports a transport error of the i-th request to the error channel its
\* caller gave: sendUserData's error handler only logs, and the GET /id request
\* was given a success function and no error handler, so none of the module's
\* code runs for it and the completion callback is not invoked
ajaxError(i) ==
  /\ inflight' = Remove(inflight, i)
  /\ ret' = Ret(IF inflight[i].flow = "id" THEN "idError" ELSE "dataError",
                inflight[i].clientId, "none", undefined, FALSE, NoResponse)
  /\ UNCHANGED <<now, cookiesOn, lsOn, store, deferred, calls, issued>>

\* the browser drops the cookies that have expired by time t
expireCookies(st, t) ==
  [st EXCEPT !.cookie =
     [k \in Keys |-> IF st.cookie[k].exp <= t THEN NoCookie ELSE st.cookie[k]]]

\* time passes
Tick ==
  /\ now < MaxTime
  /\ now' = now + 1
  /\ store' = expireCookies(store, now + 1)
  /\ ret' = Ret("tick", NoClientId, "none", undefined, FALSE, NoResponse)
  /\ UNCHANGED <<cookiesOn, lsOn, deferred, inflight, calls, issued>>

Next ==
  \/ \E clientId \in ClientIds \cup {NoClientId}, hasHem \in BOOLEAN :
       getId(clientId, hasHem, NoConsentData)
  \/ \E d \in 1..Len(deferred) : resolveIdFunction(d, undefined)
  \/ \E i \in 1..Len(inflight), response \in Responses : idResponse(i, response)
  \/ \E i \in 1..Len(inflight), response \in Responses : dataResponse(i, response)
  \/ \E i \in 1..Len(inflight) : ajaxError(i)
  \/ Tick

Spec == Init /\ [][Next]_vars

\* ------------------------------------------------- the cache alone
\* saveLotameCache and getFromStorage applied directly to one key, with the
\* clock running and the backends being withdrawn in between.  Here ret
\* remembers the last save (key, value, exp, when, whether both backends
\* took it) and the result of the last read of that key; calls counts saves.
CacheKeys == {KEY_ID}
CacheValues == CoreIds \cup ProfileIds \cup {<<>>}
CacheExpiries == 1..(CacheMaxTime + 1)

CacheInit ==
  /\ now = 0
  /\ cookiesOn = TRUE
  /\ lsOn = TRUE
  /\ store = EmptyStorage
  /\ deferred = <<>>
  /\ inflight = <<>>
  /\ ret = [op |-> "init", key |-> KEY_ID, value |-> <<>>, exp |-> 0, at |-> 0,
            both |-> FALSE, result |-> undefined]
  /\ calls = 0
  /\ issued = 0

CacheSave(key, value, expirationTimestamp) ==
  /\ calls < MaxSaves
  /\ calls' = calls + 1
  /\ store' = saveLotameCache(store, key, value, expirationTimestamp)
  /\ ret' = [op |-> "save", key |-> key, value |-> value,
             exp |-> expirationTimestamp, at |-> now,
             both |-> cookiesOn /\ lsOn, result |-> undefined]
  /\ UNCHANGED <<now, cookiesOn, lsOn, deferred, inflight, issued>>

CacheRead ==
  /\ ret.op # "init"
  /\ ret' = [ret EXCEPT !.op = "read", !.result = getFromStorage(store, ret.key)]
  /\ UNCHANGED <<now, cookiesOn, lsOn, store, deferred, inflight, calls, issued>>

CacheTick ==
  /\ now < CacheMaxTime
  /\ now' = now + 1
  /\ store' = expireCookies(store, now + 1)
  /\ ret' = [ret EXCEPT !.op = "tick"]
  /\ UNCHANGED <<cookiesOn, lsOn, deferred, inflight, calls, issued>>

\* a storage backend becomes unavailable (blocked, or access to it denied)
DisableCookies ==
  /\ cookiesOn
  /\ cookiesOn' = FALSE
  /\ ret' = [ret EXCEPT !.op = "storage"]
  /\ UNCHANGED <<now, lsOn, store, deferred, inflight, calls, issued>>

DisableLocalStorage ==
  /\ lsOn
  /\ lsOn' = FALSE
  /\ ret' = [ret EXCEPT !.op = "storage"]
  /\ UNCHANGED <<now, cookiesOn, store, deferred, inflight, calls, issued>>

CacheNext ==
  \/ \E key \in CacheKeys, value \in CacheValues, exp \in CacheExpiries :
       CacheSave(key, value, exp)
  \/ CacheRead
  \/ CacheTick
  \/ DisableCookies
  \/ DisableLocalStorage

CacheSpec == CacheInit /\ [][CacheNext]_vars

\* ------------------------------------------ the cache a page view finds
\* getId on storage that already has content: what an earlier page view, or
\* another script of the page, left under the module's keys.  An expiry
\* record is a number's digits, or not a number at all (what
\* saveLotameCache(key, expiry, expiry) leaves of an expiry_ts that is a
\* non-numeric string: the cookie's expires attribute is then "Invalid Date"
\* and the cookie lasts for the session).
NonNumeric == <<"s", "o", "o", "n">>
StoredExpiries == {null, NonNumeric, ToStr(MaxTime)}
SessionEnd == MaxTime + 1

\* value v under key k in both backends; the companion record is comp
Stored(st, k, v, comp) ==
  IF v = null THEN st
  ELSE [st EXCEPT !.cookie[k] = [v |-> v, exp |-> SessionEnd],
                  !.ls[k] = v,
                  !.ls[ExpKey(k)] = comp]

StoredStates ==
  {Stored(Stored(Stored(EmptyStorage, KEY_ID, id, null),
                 KEY_EXPIRY, e, IF own THEN e ELSE null),
          ClientKey(c), ce, IF own THEN ce ELSE null) :
     id \in {null} \cup CoreIds, e \in StoredExpiries, ce \in StoredExpiries,
     c \in ClientIds, own \in BOOLEAN}

StoredInit ==
  /\ now = 0
  /\ cookiesOn \in BOOLEAN
  /\ lsOn \in BOOLEAN
  /\ store \in StoredStates
  /\ deferred = <<>>
  /\ inflight = <<>>
  /\ ret = Ret("init", NoClientId, "none", undefined, FALSE, NoResponse)
  /\ calls = 0
  /\ issued = 0

StoredNext ==
  \/ \E clientId \in ClientIds \cup {NoClientId}, hasHem \in BOOLEAN :
       getId(clientId, hasHem, NoConsentData)
  \/ Tick

StoredSpec == StoredInit /\ [][StoredNext]_vars

\* ------------------------------------------------ the request's query
\* One getId call with a consent context and the invocations of the callback
\* it returns, on a page whose storage may hold a ProfileId and the
\* first-party consent cookies (possibly with an empty value).
StoredUsPrivacy == <<"1", "N", "N", "N">>
StoredPubConsent == <<"P">>
StoredConsent == <<"E">>

QueryStates ==
  {Stored(Stored(Stored(Stored(EmptyStorage, KEY_PROFILE, pid, null),
                        "us_privacy", us, null),
                 "eupubconsent-v2", pub, null),
          "euconsent-v2", eu, null) :
     pid \in {null} \cup ProfileIds,
     us \in {null, <<>>, StoredUsPrivacy},
     pub \in {null, <<>>, StoredPubConsent},
     eu \in {null, <<>>, StoredConsent}}

QueryInit ==
  /\ now = 0
  /\ cookiesOn \in BOOLEAN
  /\ lsOn \in BOOLEAN
  /\ store \in QueryStates
  /\ deferred = <<>>
  /\ inflight = <<>>
  /\ ret = Ret("init", NoClientId, "none", undefined, FALSE, NoResponse)
  /\ calls = 0
  /\ issued = 0

QueryNext ==
  \/ \E clientId \in ClientIds \cup {NoClientId}, hasHem \in BOOLEAN,
        consentData \in ConsentDatas :
       calls = 0 /\ getId(clientId, hasHem, consentData)
  \/ \E d \in 1..Len(deferred), usp \in UspValues : resolveIdFunction(d, usp)

QuerySpec == QueryInit /\ [][QueryNext]_vars

\* ------------------------------------------------- claims: vocabulary
IsResponse(r) == r.op \in {"idResponse", "dataResponse"}
HasConsentError(response) ==
  \E i \in 1..Len(response.errors) : response.errors[i] = MISSING_CORE_CONSENT

\* the suppression expiry a read of client X's record yields now (0: none)
StoredClientExpiry(X) ==
  LET raw == getFromStorage(store, ClientKey(X))
  IN IF raw = null THEN 0 ELSE parseInt(raw)
SuppressionActive(X) == Lt(now, StoredClientExpiry(X))
Suppressed(clientId) == clientId \in ClientIds /\ SuppressionActive(clientId)

\* the CoreId a load of the cache finds fresh now (undefined: none)
FreshCoreId == getCurrentPanoId(getLotameLocalCache(store, NoClientId))

\* key k has no entry in either backend
AbsentFromBoth(k) == store.cookie[k] = NoCookie /\ store.ls[k] = null

\* the step leaves every key outside K as it was, in both backends
FrameExcept(K) ==
  \A k \in Keys \ K :
    /\ store'.cookie[k] = store.cookie[k]
    /\ store'.ls[k] = store.ls[k]
    /\ store'.ls[ExpKey(k)] = store.ls[ExpKey(k)]

\* --------------------------------------------------------------- C1
\* C1: when the configured clientId has an active suppression window (now is
\* before the suppression expiry a read of its record yields), getId returns
\* the NO_CLIENT_CONSENT marker: no id and no callback, whatever else the
\* cache holds.
C1_SuppressionPrecedence ==
  (ret.op = "getId" /\ Suppressed(ret.clientId))
    => (ret.kind = "suppressed" /\ ret.value = undefined)

C1_Witness ==
  /\ ret.op = "getId" /\ ret.kind = "suppressed"
  /\ Suppressed(ret.clientId)
  /\ FreshCoreId \in CoreIds

\* --------------------------------------------------------------- C2
\* the local-storage backend holds CoreId id and the global expiry record e,
\* written together: both entries and both companion "_exp" records say e
CachedPair(id, e) ==
  /\ lsOn
  /\ store.ls[KEY_ID] = id /\ store.ls[ExpKey(KEY_ID)] = ToStr(e)
  /\ store.ls[KEY_EXPIRY] = ToStr(e) /\ store.ls[ExpKey(KEY_EXPIRY)] = ToStr(e)

\* C2: for every cached (CoreId, expiry) pair, with no suppression window
\* active, getId returns the id synchronously if and only if now <= expiry
\* (so also at exactly the expiry timestamp), and a deferred callback in
\* every other case.
C2_FreshnessInclusive ==
  \A id \in CoreIds, e \in 1..MaxExpiry :
    (ret.op = "getId" /\ ~Suppressed(ret.clientId) /\ CachedPair(id, e))
      => /\ (ret.kind = "id" /\ ret.value = id) <=> now <= e
         /\ now > e => ret.kind = "callback"

\* --------------------------------------------------------------- C3
\* the expiry that goes with the CoreId the last handler handed over
HandedExpiry ==
  CASE ret.op = "getId" -> getLotameLocalCache(store, ret.clientId).expiryTimestampMs
    [] ret.op = "idResponse" -> DefaultExpiration(ret.resp.expiry_ts)
    [] OTHER -> 0

\* C3: a CoreId is never handed to the caller, by getId's return value or by
\* the completion callback of the deferred resolver, at a time now greater
\* than the expiry that goes with that CoreId.
C3_NeverHandedExpired ==
  (ret.kind \in {"id", "delivered"} /\ ret.value \in CoreIds)
    => ~Gt(now, HandedExpiry)

\* --------------------------------------------------------------- C4
\* the step processes a JSON response with no_consent "CLIENT" and
\* expiry_ts T for a call configured with clientId X
ClientNoConsentStep(X, T) ==
  /\ IsResponse(ret') /\ ret'.clientId = X
  /\ ret'.resp.kind = "json" /\ ret'.resp.no_consent = CLIENT
  /\ ret'.resp.expiry_ts = T

\* C4 as stated: processing {no_consent: "CLIENT", expiry_ts: T} for a call
\* with a clientId leaves that client's suppression window reading as T
\* (local storage available and T still ahead), leaves every other key
\* untouched and hands undefined to the callback.
C4_AsStated ==
  [][\A X \in ClientIds, T \in 1..MaxExpiry :
       (ClientNoConsentStep(X, T) /\ lsOn /\ now < T) =>
         /\ StoredClientExpiry(X)' = T
         /\ FrameExcept({ClientKey(X)})
         /\ ret'.value = undefined]_vars

\* C4 amended: when the response also reports error 111, T is written as
\* value and as expiry under the client's suppression key in every available
\* backend (the cookie expiring at T cut to whole seconds), nothing else
\* changes, the callback gets undefined, and the window reads as T exactly
\* when an available backend still holds it live (0 otherwise).
C4_ClientSuppression ==
  [][\A X \in ClientIds, T \in 1..MaxExpiry :
       (ClientNoConsentStep(X, T) /\ HasConsentError(ret'.resp)) =>
         LET K == ClientKey(X)
             cut == (T \div TicksPerSecond) * TicksPerSecond
             live == (lsOn /\ now < T) \/ (cookiesOn /\ now < cut)
         IN /\ lsOn => store'.ls[K] = ToStr(T) /\ store'.ls[ExpKey(K)] = ToStr(T)
            /\ cookiesOn =>
                 store'.cookie[K] =
                   IF now < cut THEN [v |-> ToStr(T), exp |-> cut] ELSE NoCookie
            /\ FrameExcept({K})
            /\ ret'.value = undefined
            /\ StoredClientExpiry(X)' = IF live THEN T ELSE 0]_vars

C4_Witness ==
  /\ ret.op = "idResponse" /\ ret.clientId \in ClientIds
  /\ ret.resp.no_consent = CLIENT /\ HasConsentError(ret.resp)
  /\ ret.resp.expiry_ts = MaxExpiry
  /\ StoredClientExpiry(ret.clientId) = MaxExpiry
  /\ FreshCoreId \in CoreIds

\* --------------------------------------------------------------- C5
JsonProcessed == IsResponse(ret) /\ ret.resp.kind = "json"
LacksProfileId == ~isStr(ret.resp.profile_id)
IdentityCleared ==
  /\ AbsentFromBoth(KEY_ID)
  /\ ~HasConsentError(ret.resp) => AbsentFromBoth(KEY_PROFILE)

\* C5 as stated: after a response with no_consent set for a call without
\* clientId, or any response lacking profile_id, the CoreId is absent from
\* both backends, and so is the ProfileId when the response is
\* consent-error-free.
C5_AsStated ==
  (JsonProcessed /\ \/ (isStr(ret.resp.no_consent) /\ ret.clientId = NoClientId)
                    \/ LacksProfileId)
    => IdentityCleared

\* the response took the client-scoped no-consent branch
TookClientBranch ==
  /\ ret.clientId \in ClientIds
  /\ HasConsentError(ret.resp) /\ ret.resp.no_consent = CLIENT

\* C5 amended: after a response lacking profile_id that does not end at the
\* client-scoped no-consent branch, the CoreId is absent from both backends,
\* and so is the ProfileId when the response is consent-error-free.  (The
\* no_consent field is read only for a call with a clientId.)
C5_ClearsIdentity ==
  (JsonProcessed /\ LacksProfileId /\ ~TookClientBranch) => IdentityCleared

\* a response without profile_id has just cleared a CoreId cached earlier:
\* its companion expiry record is still there
C5_Witness ==
  /\ JsonProcessed /\ LacksProfileId /\ ~TookClientBranch
  /\ ~HasConsentError(ret.resp)
  /\ AbsentFromBoth(KEY_ID) /\ AbsentFromBoth(KEY_PROFILE)
  /\ store.ls[ExpKey(KEY_ID)] # null

\* --------------------------------------------------------------- C6
\* the step neither creates nor replaces the entry of key k
NotWritten(k) ==
  /\ store'.cookie[k] \in {store.cookie[k], NoCookie}
  /\ store'.ls[k] \in {store.ls[k], null}

\* C6: processing a response whose errors contain 111 writes neither a
\* ProfileId nor a CoreId to any backend, on the /id flow and on the
\* linkage-data flow.
C6_NoIdentifierOnConsentError ==
  [][(IsResponse(ret') /\ ret'.resp.kind = "json" /\ HasConsentError(ret'.resp))
       => NotWritten(KEY_PROFILE) /\ NotWritten(KEY_ID)]_vars

\* --------------------------------------------------------------- C7
\* C7: the deferred callback re-checks freshness against the cache at the
\* time it is invoked: with a fresh CoreId in the cache it delivers that id
\* and issues no request; it issues a request only when the cache is stale.
C7_LateBinding ==
  (ret.op = "resolve" /\ FreshCoreId \in CoreIds)
    => (ret.kind = "delivered" /\ ret.value = FreshCoreId /\ ~ret.sent)

\* --------------------------------------------------------------- C8
\* C8: while a suppression window for clientId X is active, no GET /id
\* request carrying c=X is issued.
C8_NoRequestInWindow ==
  \A X \in ClientIds :
    (ret.op = "resolve" /\ ret.sent /\ ret.clientId = X) => ~SuppressionActive(X)

\* --------------------------------------------------------- C9, C10
\* the last save stored a value, with both backends available
SavedInBoth == ret.op = "read" /\ ret.both /\ Truthy(ret.value)
\* the last save's expiry cut to whole seconds, as the cookie carries it
CookieExpiry == (ret.exp \div TicksPerSecond) * TicksPerSecond
HalfSecond == TicksPerSecond \div 2

\* C9 as stated: after saveLotameCache(key, value, exp) with exp in the
\* future, an immediate read returns value whichever backend has been
\* disabled since the write.
C9_AsStated ==
  (SavedInBoth /\ now = ret.at /\ ret.exp > ret.at /\ (cookiesOn \/ lsOn))
    => ret.result = ret.value

\* C9 amended: the immediate read returns value when local storage is still
\* available, and through the cookie alone exactly when exp cut to whole
\* seconds is still in the future (otherwise it returns null).
C9_DualBackend ==
  (SavedInBoth /\ now = ret.at /\ ret.exp > ret.at /\ (cookiesOn \/ lsOn))
    => ret.result = IF lsOn \/ CookieExpiry > now THEN ret.value ELSE null

C9_Witness ==
  /\ SavedInBoth /\ now = ret.at /\ ret.exp > ret.at
  /\ cookiesOn /\ ~lsOn
  /\ ret.result = ret.value

\* the last save was write(K, V, t + 1000 ms) at time t
SavedForOneSecond ==
  ret.op = "read" /\ Truthy(ret.value) /\ ret.exp = ret.at + TicksPerSecond

\* C10 as stated: after write(K, V, now+1000), read(K) at now+500 returns V
\* and read(K) at now+2000 returns absent, whichever backend serves the read.
C10_AsStated ==
  (SavedForOneSecond /\ (cookiesOn \/ lsOn))
    => /\ now = ret.at + HalfSecond => ret.result = ret.value
       /\ now = ret.at + 2 * TicksPerSecond => ret.result = null

\* C10 amended: the read at now+500 returns V when local storage serves it,
\* and through the cookie alone exactly when now+1000 cut to whole seconds is
\* later than now+500; the read at now+2000 returns absent on either backend.
C10_ExpiryQualified ==
  (SavedForOneSecond /\ (cookiesOn \/ lsOn))
    => /\ now = ret.at + HalfSecond =>
            ret.result = IF lsOn \/ CookieExpiry > now THEN ret.value ELSE null
       /\ now = ret.at + 2 * TicksPerSecond => ret.result = null

\* the value is still in local storage, and the read two seconds after the
\* write does not return it
C10_Witness ==
  /\ SavedForOneSecond /\ now = ret.at + 2 * TicksPerSecond
  /\ lsOn /\ store.ls[ret.key] = ret.value
  /\ ret.result = null

\* -------------------------------------------------------------- C11
\* an available backend holds a string that is not a number under key k
HoldsNonNumeric(k) ==
  \/ cookiesOn /\ isStr(getCookie(store, k)) /\ parseInt(getCookie(store, k)) = NaN
  \/ lsOn /\ isStr(store.ls[k]) /\ parseInt(store.ls[k]) = NaN

\* C11: when storage holds a non-numeric global expiry record or a
\* non-numeric suppression-expiry record of the configured client, the
\* corresponding field of the state getId loads is 0; the CoreId then counts
\* as expired (getId does not return it) and no suppression is in effect.
C11_MalformedExpiryIsZero ==
  ret.op = "getId" =>
    LET cache == getLotameLocalCache(store, ret.clientId)
    IN /\ HoldsNonNumeric(KEY_EXPIRY) =>
            cache.expiryTimestampMs = 0 /\ ret.kind # "id"
       /\ (ret.clientId \in ClientIds /\ HoldsNonNumeric(ClientKey(ret.clientId))) =>
            cache.clientExpiryTimestampMs = 0 /\ ret.kind # "suppressed"

\* -------------------------------------------------------------- C12
\* C12: when the GET /id request of a deferred resolution ends in a transport
\* error, no cached key is written or cleared, no retry is issued, and the
\* completion callback is invoked with undefined.
C12_TransportError ==
  [][ret'.op = "idError" =>
       /\ store' = store
       /\ issued' = issued /\ Len(inflight') < Len(inflight)
       /\ ret'.kind = "delivered" /\ ret'.value = undefined]_vars

\* -------------------------------------------------------------- C13
\* a body that parses to a value carrying none of the response's fields
ShapelessJson == Blank("json")

\* C13 as stated: a body that fails JSON parsing, or parses to an object
\* carrying none of the response's fields, is a no-op: the storage is left as
\* it was and the callback receives undefined.
C13_AsStated ==
  [][(IsResponse(ret') /\ (ret'.resp.kind = "invalid" \/ ret'.resp = ShapelessJson))
       => store' = store /\ ret'.value = undefined]_vars

\* C13 amended: an empty body or one that fails JSON parsing leaves the
\* storage as it was; a body that parses to a value without any of the fields
\* is processed like every response lacking profile_id: CoreId, ProfileId and
\* the configured client's suppression entry are then absent from both
\* backends and nothing else changes.  The callback receives undefined in
\* both cases.
C13_MalformedResponse ==
  [][IsResponse(ret') =>
       /\ ret'.resp.kind \in {"invalid", "empty"} =>
            store' = store /\ ret'.value = undefined
       /\ ret'.resp = ShapelessJson =>
            /\ AbsentFromBoth(KEY_ID)' /\ AbsentFromBoth(KEY_PROFILE)'
            /\ \A X \in ClientIds \cup {NoClientId} :
                 ret'.clientId = X =>
                   /\ X \in ClientIds => AbsentFromBoth(ClientKey(X))'
                   /\ FrameExcept({KEY_ID, KEY_PROFILE, ClientKey(X)})
            /\ ret'.value = undefined]_vars

\* a body that does not parse has just been handled on the /id flow, and the
\* CoreId cached before is still there
C13_Witness ==
  /\ ret.op = "idResponse" /\ ret.resp.kind = "invalid"
  /\ ret.value = undefined
  /\ FreshCoreId \in CoreIds

\* -------------------------------------------------------------- C14
\* the first non-empty value of a list of sources (undefined: there is none)
FirstNonEmpty(sources) ==
  LET I == {i \in 1..Len(sources) : Truthy(sources[i])}
  IN IF I = {} THEN undefined
     ELSE sources[CHOOSE i \in I : \A j \in I : i <= j]
Sent(v) == v # undefined

\* C14: the GET /id request carries fp exactly when a ProfileId is stored (the
\* storage does not change between getId and the request here) and c exactly
\* when a clientId is configured; gdpr_applies exactly when the consent object
\* supplies a boolean; us_privacy and gdpr_consent exactly when the first
\* non-empty of their sources exists (handler then cookie; consent object then
\* the two cookies), with that value; no parameter is sent as an empty string.
C14_RequestParameters ==
  [][\A d \in 1..Len(deferred), usp \in UspValues :
       (resolveIdFunction(d, usp) /\ ret'.sent) =>
         LET q == inflight'[Len(inflight')].query
             cd == deferred[d].consentData
             pid == getProfileId(store)
         IN /\ Sent(q.fp) <=> Truthy(pid)
            /\ Sent(q.fp) => q.fp = pid
            /\ q.c = deferred[d].clientId
            /\ Sent(q.gdpr_applies) <=> (cd.present /\ cd.gdprApplies \in {true, false})
            /\ Sent(q.gdpr_applies) => q.gdpr_applies = cd.gdprApplies
            /\ q.us_privacy =
                 FirstNonEmpty(<<usp, getFromStorage(store, "us_privacy")>>)
            /\ q.gdpr_consent =
                 FirstNonEmpty(<<IF cd.present THEN cd.consentString ELSE undefined,
                                 getFromStorage(store, "eupubconsent-v2"),
                                 getFromStorage(store, "euconsent-v2")>>)
            /\ \A v \in {q.fp, q.us_privacy, q.gdpr_applies, q.gdpr_consent} :
                 v # <<>>]_vars

\* a request without c that carries the stored ProfileId, gdpr_applies=false,
\* the us_privacy cookie (the handler had none) and the second consent cookie
C14_Witness ==
  /\ ret.op = "resolve" /\ ret.sent
  /\ inflight[Len(inflight)].query =
       [fp |-> <<"p", "1">>, c |-> NoClientId, us_privacy |-> StoredUsPrivacy,
        gdpr_applies |-> false, gdpr_consent |-> StoredConsent]

\* -------------------------------------------------------------- C15
\* the step puts a value under key k in some backend
Written(k) ==
  \/ store'.cookie[k] # store.cookie[k] /\ store'.cookie[k] # NoCookie
  \/ store'.ls[k] # store.ls[k] /\ store'.ls[k] # null

\* C15: a suppression entry of clientId X is only ever written by the
\* processing of a client-scoped no-consent response for X (errors contain
\* 111 and no_consent is "CLIENT"), so that an entry in storage has such a
\* response before it; and right after a consent-error-free response for X
\* has been processed the entry is absent from both backends.
C15_SuppressionLifecycle ==
  [][\A X \in ClientIds :
       /\ Written(ClientKey(X)) =>
            /\ IsResponse(ret') /\ ret'.clientId = X /\ ret'.resp.kind = "json"
            /\ HasConsentError(ret'.resp) /\ ret'.resp.no_consent = CLIENT
       /\ (IsResponse(ret') /\ ret'.clientId = X /\ ret'.resp.kind = "json"
             /\ ~HasConsentError(ret'.resp))
            => AbsentFromBoth(ClientKey(X))']_vars

\* a consent-error-free response has just cleared a suppression entry written
\* earlier: the entry's companion expiry record is what is left of it
C15_Witness ==
  \E X \in ClientIds :
    /\ JsonProcessed /\ ret.clientId = X /\ ~HasConsentError(ret.resp)
    /\ AbsentFromBoth(ClientKey(X))
    /\ lsOn /\ store.ls[ExpKey(ClientKey(X))] # null

\* -------------------------------------------------------------- C16
\* the global expiry a load of the cache yields now (0: none)
StoredGlobalExpiry == getLotameLocalCache(store, NoClientId).expiryTimestampMs

\* C16 as stated: after every processed response that does not stop at the
\* client-scoped no-consent branch, the stored global expiry equals the
\* response's expiry_ts (some backend being available).
C16_AsStated ==
  (JsonProcessed /\ ~TookClientBranch /\ (cookiesOn \/ lsOn))
    => StoredGlobalExpiry = ret.resp.expiry_ts

\* C16 amended: such a response with an expiry_ts T leaves T as the global
\* expiry record, with expiry T, in every available backend, whatever the
\* consent outcome (the cookie lasts until T cut to whole seconds and is not
\* kept when that is not ahead); the stored global expiry then reads as T
\* exactly when an available backend holds it live (0 otherwise).
C16_GlobalExpiry ==
  (JsonProcessed /\ ~TookClientBranch) =>
    \A T \in 1..MaxExpiry :
      ret.resp.expiry_ts = T =>
        LET cut == (T \div TicksPerSecond) * TicksPerSecond
            live == (lsOn /\ now < T) \/ (cookiesOn /\ now < cut)
        IN /\ lsOn => /\ store.ls[KEY_EXPIRY] = ToStr(T)
                      /\ store.ls[ExpKey(KEY_EXPIRY)] = ToStr(T)
           /\ cookiesOn =>
                store.cookie[KEY_EXPIRY] =
                  IF now < cut THEN [v |-> ToStr(T), exp |-> cut] ELSE NoCookie
           /\ StoredGlobalExpiry = IF live THEN T ELSE 0

\* a response reporting missing consent, which granted no id, has left its
\* expiry_ts as the global expiry
C16_Witness ==
  /\ ret.op = "idResponse" /\ ret.resp.kind = "json" /\ ~TookClientBranch
  /\ HasConsentError(ret.resp) /\ ret.value = undefined
  /\ ret.resp.expiry_ts = MaxExpiry
  /\ StoredGlobalExpiry = MaxExpiry

\* -------------------------------------------------------------- C17
\* the CoreId id is cached with expiry e in every available backend
CachedWithExpiry(id, e) ==
  LET cut == (e \div TicksPerSecond) * TicksPerSecond
  IN /\ lsOn => store.ls[KEY_ID] = id /\ store.ls[ExpKey(KEY_ID)] = ToStr(e)
     /\ cookiesOn =>
          store.cookie[KEY_ID] =
            IF now < cut THEN [v |-> id, exp |-> cut] ELSE NoCookie

\* C17: after a response with a non-empty profile_id (one that did not stop
\* at the client-scoped no-consent branch): if core_id is a non-empty string
\* the CoreId is cached with expiry expiry_ts and the callback has received
\* exactly that CoreId; if core_id is anything else (absent or empty) the
\* CoreId is absent from both backends and the callback has received
\* undefined.
C17_CoreIdHandling ==
  (ret.op = "idResponse" /\ ret.resp.kind = "json" /\ ~TookClientBranch
     /\ ret.resp.profile_id \in ProfileIds)
    => IF ret.resp.core_id \in CoreIds
       THEN /\ CachedWithExpiry(ret.resp.core_id, DefaultExpiration(ret.resp.expiry_ts))
            /\ ret.value = ret.resp.core_id
       ELSE /\ AbsentFromBoth(KEY_ID)
            /\ ret.value = undefined

\* -------------------------------------------------------------- C18
\* the response carries a ProfileId, a CoreId and an expiry_ts
Complete(response) ==
  /\ response.kind = "json"
  /\ response.profile_id \in ProfileIds /\ response.core_id \in CoreIds
  /\ response.expiry_ts \in 1..MaxExpiry

\* the entries of key k in storage st
Entry(st, k) == <<st.cookie[k], st.ls[k], st.ls[ExpKey(k)]>>

\* C18: every invocation of the deferred callback issues its own GET /id
\* request (none is served from the callback's cache, none is merged with a
\* request in flight); and a response that carries an id and an expiry
\* overwrites what the responses before it left: afterwards the CoreId and
\* the global expiry record are exactly what this response leaves on an empty
\* cache, whatever the order of the earlier ones.
C18_LastWriteWins ==
  /\ ret.op = "resolve" =>
       /\ ret.sent /\ inflight # <<>>
       /\ inflight[Len(inflight)].flow = "id"
       /\ inflight[Len(inflight)].clientId = ret.clientId
  /\ (ret.op = "idResponse" /\ Complete(ret.resp) /\ ~TookClientBranch) =>
       LET alone == handleResponse(EmptyStorage, ret.clientId, ret.resp).st
       IN \A k \in {KEY_ID, KEY_EXPIRY} : Entry(store, k) = Entry(alone, k)

\* one callback invoked twice, both responses processed: the first stored a
\* ProfileId, the last (reporting missing consent) stored its id and expiry
C18_Witness ==
  /\ ret.op = "idResponse" /\ Complete(ret.resp) /\ HasConsentError(ret.resp)
  /\ ret.clientId = NoClientId /\ calls = 1 /\ Len(deferred) = 1
  /\ issued = 2 /\ inflight = <<>>
  /\ lsOn /\ store.ls[KEY_PROFILE] \in ProfileIds
  /\ store.ls[KEY_EXPIRY] = ToStr(ret.resp.expiry_ts)

\* -------------------------------------------------------------- C19
\* the keys the module persists under
PersistedKeys == {KEY_ID, KEY_EXPIRY, KEY_PROFILE} \cup {ClientKey(c) : c \in ClientIds}

\* what a read of key k returns from one backend taken alone (null: absent)
CookieAlone(k) == getCookie(store, k)
LsAlone(k) ==
  LET storedValueExp == store.ls[ExpKey(k)]
  IN IF storedValueExp = null \/ storedValueExp = <<>> THEN store.ls[k]
     ELSE IF Gt(parseInt(storedValueExp), now) THEN store.ls[k] ELSE null

\* C19 as stated: with both backends enabled, at any time, every persisted
\* key is readable with the same value from each backend taken alone, or
\* absent from both.
C19_AsStated ==
  (cookiesOn /\ lsOn) => \A k \in PersistedKeys : CookieAlone(k) = LsAlone(k)

\* C19 amended: with both backends enabled, a key readable from the cookie
\* backend is readable with the same value from local storage; a key readable
\* from local storage alone is one whose cookie has lapsed already, the
\* cookie's expiry being the entry's expiry cut to whole seconds (this does
\* not happen to the ProfileId, whose cookie lasts nine months).
C19_CookieLapsesFirst ==
  (cookiesOn /\ lsOn) =>
    \A k \in PersistedKeys :
      /\ CookieAlone(k) # null => LsAlone(k) = CookieAlone(k)
      /\ (CookieAlone(k) = null /\ LsAlone(k) # null) =>
           /\ k # KEY_PROFILE
           /\ toUTCString(parseInt(store.ls[ExpKey(k)])) <= now
           /\ now < parseInt(store.ls[ExpKey(k)])

\* the CoreId is readable from local storage while its cookie has lapsed
C19_Witness ==
  /\ cookiesOn /\ lsOn
  /\ LsAlone(KEY_ID) \in CoreIds /\ CookieAlone(KEY_ID) = null
  /\ CookieAlone(KEY_PROFILE) \in ProfileIds

\* -------------------------------------------------------------- C20
\* the linkage-data POST of a call configured with clientId
LinkagePost(clientId) ==
  [flow |-> "data", clientId |-> clientId, query |-> [NoQuery EXCEPT !.c = clientId]]

\* C20 as stated: every getId call with a clientId and a hem triggers the
\* linkage-data POST, also the call that returns the suppression marker and
\* the call that returns a fresh cached id.
C20_AsStated ==
  [][\A clientId \in ClientIds :
       getId(clientId, TRUE, NoConsentData)
         => inflight' = Append(inflight, LinkagePost(clientId))]_vars

\* C20 amended: a getId call with a clientId and a hem triggers the
\* linkage-data POST unless it returns the suppression marker, so also when
\* it returns a fresh cached id; a call that returns the marker, or has no
\* clientId or no hem, issues no request.  The outcome of the POST is no part
\* of what getId returned: its response or failure invokes no callback and
\* leaves the deferred results as they are.
C20_LinkageCall ==
  [][/\ \A clientId \in ClientIds \cup {NoClientId}, hasHem \in BOOLEAN :
          getId(clientId, hasHem, NoConsentData) =>
            inflight' = IF clientId # NoClientId /\ hasHem /\ ret'.kind # "suppressed"
                        THEN Append(inflight, LinkagePost(clientId))
                        ELSE inflight
     /\ ret'.op \in {"dataResponse", "dataError"} =>
          /\ ret'.kind = "none" /\ ret'.value = undefined
          /\ deferred' = deferred]_vars

\* getId has returned a fresh cached id and its linkage-data POST is in flight
C20_Witness ==
  /\ ret.op = "getId" /\ ret.kind = "id" /\ ret.value \in CoreIds
  /\ inflight # <<>> /\ inflight[Len(inflight)] = LinkagePost(ret.clientId)

====
